---- MODULE Spec2Model ----
(***************************************************************************)
(* A model of gmail_to_sheets.py: the Gmail -> classifier -> Trello        *)
(* pipeline (process_emails_once), the Auto Mode worker (auto_worker) and  *)
(* the script body that starts and stops it.                               *)
(*                                                                         *)
(* Process 0 is the script thread (a Streamlit rerun that executes         *)
(* "Execute Run Now"); processes 1..MaxThreads are auto_worker threads.    *)
(* Every external call of process_emails_once is one step of the process   *)
(* that makes it; the test of the processed-id set (line 264) and the      *)
(* insertion into it (line 269) are separate steps, as they are separate   *)
(* statements of the code with no lock around them.                        *)
(***************************************************************************)
EXTENDS Integers, Sequences, FiniteSets, TLC

\* ------------------------------------------------------------ bounds
\* max_emails_per_run (sidebar input, 1..100): the cap passed to the fetch.
MaxEmails == 2
\* How many passes (calls of process_emails_once) a behaviour may start.
MaxPasses == 2
\* How many auto_worker threads a behaviour may start.
MaxThreads == 2
\* check_interval_minutes (sidebar input, 1..180).
CheckIntervalMinutes == 1
\* The factor of line 438: range(check_interval_minutes * 60).
SecondsPerMinute == 60
\* How many pieces a subject line is made of, at most.
MaxSubjectTokens == 3
\* The cap of line 240: logs[-500:].
LogCap == 500
\* How many calls of log a behaviour may make.
MaxLogCalls == 503

SleepSteps == CheckIntervalMinutes * SecondsPerMinute

FG == 0
Workers == 1..MaxThreads
Procs == {FG} \cup Workers

\* ------------------------------------------------------------ text
\* Strings are sequences of one-character strings, so that str.lower() and
\* the substring test `x in s` are computed, not assumed.
UpperCase == <<"A","B","C","D","E","F","G","H","I","J","K","L","M",
               "N","O","P","Q","R","S","T","U","V","W","X","Y","Z">>
LowerCase == <<"a","b","c","d","e","f","g","h","i","j","k","l","m",
               "n","o","p","q","r","s","t","u","v","w","x","y","z">>

LowerChar(c) ==
  IF \E i \in 1..26 : UpperCase[i] = c
  THEN LowerCase[CHOOSE i \in 1..26 : UpperCase[i] = c]
  ELSE c

\* str.lower()
Lower(s) == [i \in 1..Len(s) |-> LowerChar(s[i])]

\* `sub in s` for strings
Contains(s, sub) ==
  \E i \in 0..(Len(s) - Len(sub)) :
    \A j \in 1..Len(sub) : s[i + j] = sub[j]

\* ------------------------------------------------------------ inputs
\* URLs that occur in message bodies and in the classifier's file_links.
U_pdf  == <<"h","t","t","p",":","/","/","h","/","a",".","P","D","F">>
U_page == <<"h","t","t","p",":","/","/","h","/","p","a","g","e">>
U_dbx  == <<"h","t","t","p",":","/","/","D","r","o","p","b","o","x",".","c","o","m","/","s">>
U_xlsm == <<"h","t","t","p",":","/","/","h","/","b",".","x","l","s","m">>
U_next == <<"h","t","t","p",":","/","/","h","/","?","u","=",
            "d","r","o","p","b","o","x",".","c","o","m">>

\* The filename of a mailbox attachment part.
F_att  == <<"a",".","t","x","t">>

\* The mailbox: message ids and, per id, what the Gmail payload holds.
\*   parts     : the (filename, attachmentId) parts of the payload
\*   body_urls : what re.findall finds in body_text (line 351)
\*   ai_links  : the file_links the classifier extracts from this message
MsgIds == {1, 2, 3}
\* A further message, whose links carry the text of an extension or of
\* dropbox.com without having that extension or that host.
AllIds == MsgIds \cup {4}

Message(mid) ==
  CASE mid = 1 -> [id |-> 1, parts |-> <<>>, body_urls |-> <<>>, ai_links |-> <<>>]
    [] mid = 2 -> [id |-> 2, parts |-> <<F_att>>, body_urls |-> <<U_pdf>>, ai_links |-> <<>>]
    [] mid = 4 -> [id |-> 4, parts |-> <<F_att>>, body_urls |-> <<U_xlsm>>,
                   ai_links |-> <<U_next, U_page>>]
    [] OTHER   -> [id |-> mid, parts |-> <<>>, body_urls |-> <<U_page>>, ai_links |-> <<U_dbx>>]

\* Error texts str(e) of a failed completion call.
E_rate    == <<"R","a","t","e"," ","l","i","m","i","t">>
E_timeout == <<"t","i","m","e","d"," ","o","u","t">>
E_empty   == <<>>
ErrTexts == {E_rate, E_timeout, E_empty}

\* What analyze_and_extract returns: (parsed, None) or (None, str(e)).
\* parsed is a JSON value: kind "dict" (with the keys it holds), "list" (a
\* non-empty list, truthy, without .get) or "None" (JSON null / no value).
NoJson == [kind |-> "None", keys |-> {}, is_project |-> FALSE, file_links |-> <<>>]
NoErr  == [none |-> TRUE, text |-> <<>>]

Failure(text) == [parsed |-> NoJson, err |-> [none |-> FALSE, text |-> text]]
Success(json) == [parsed |-> json, err |-> NoErr]

ProjectJson(m) ==
  [kind |-> "dict", keys |-> {"is_project", "project_name", "file_links"},
   is_project |-> TRUE, file_links |-> m.ai_links]
NotProjectJson ==
  [kind |-> "dict", keys |-> {"is_project"}, is_project |-> FALSE, file_links |-> <<>>]
AbsentJson ==
  [kind |-> "dict", keys |-> {"project_name"}, is_project |-> FALSE, file_links |-> <<>>]
EmptyJson ==
  [kind |-> "dict", keys |-> {}, is_project |-> FALSE, file_links |-> <<>>]
ListJson ==
  [kind |-> "list", keys |-> {}, is_project |-> FALSE, file_links |-> <<>>]

Responses(m) ==
  {Failure(t) : t \in ErrTexts} \cup
  {Success(j) : j \in {ProjectJson(m), NotProjectJson, AbsentJson, EmptyJson,
                       ListJson, NoJson}}

\* ------------------------------------------------------------ state
VARIABLES
  inbox,          \* the mailbox: ids matching "in:inbox newer_than:1d", newest first
  processed_ids,  \* st.session_state["processed_ids"]
  board,          \* the Trello list: per message id, the cards created for it,
                  \* each named by the pass that created it
  llm,            \* per message id, the passes that called the classifier for it
  started,        \* per message id, the passes that executed line 269 for it
  passNo,         \* how many calls of process_emails_once have begun
  pc,             \* per process, its position in process_emails_once
  myPass,         \* per process, the number of its current pass
  summary,        \* per process, the local `summary` of its pass
  loc,            \* per process, the other locals of its pass
  obs,            \* per process, the external calls and sleeps of its pass, in order
  auto_running,   \* st.session_state["auto_running"]
  auto_stop_flag, \* st.session_state["auto_stop_flag"]: the current Event (0: none)
  events,         \* the threading.Event objects created so far: their flags
  wpc,            \* per worker thread, its position in auto_worker
  wevent,         \* per worker thread, the Event its global stop_event names
  wk,             \* per worker thread, the one-second sleeps done in this interval
  stopped_at      \* per worker thread: where it was (in auto_worker, and in its
                  \* pass) when its Event was set
VARIABLES
  subject,        \* the argument of the latest call of clean_subject
  cleaned,        \* what that call returned
  logs,           \* st.session_state["logs"]: the entries, each named by the
                  \* number of the call of log that appended it
  logged          \* how many calls of log there have been

passVars  == <<pc, myPass, summary, loc, obs>>
worldVars == <<board, llm, started>>
autoVars  == <<auto_running, auto_stop_flag, events, wpc, wevent, wk, stopped_at>>
textVars  == <<subject, cleaned, logs, logged>>
vars == <<inbox, processed_ids, board, llm, started, passNo, pc, myPass, summary,
          loc, obs, auto_running, auto_stop_flag, events, wpc, wevent, wk, stopped_at,
          subject, cleaned, logs, logged>>

\* summary = {"fetched": 0, "parsed": 0, "inserted": 0, "skipped": 0, "errors": 0}
ZeroSummary == [fetched |-> 0, parsed |-> 0, inserted |-> 0, skipped |-> 0, errors |-> 0]

\* The locals of process_emails_once other than summary. A local that the code
\* assigns again before it reads it (parsed, err, attached_files,
\* attached_links) is reset when the loop moves to the next message.
\* attach_results holds what the calls of the attach loop in progress gave so
\* far (ok_attach / ok_link or the exception, lines 394-411).
NoLocals ==
  [emails |-> <<>>, idx |-> 1, service |-> FALSE, parsed |-> NoJson, err |-> NoErr,
   attached_files |-> <<>>, attached_links |-> <<>>, cur |-> 1,
   attach_results |-> <<>>]

\* `continue`, or the end of the loop body: on to the next fetched message.
NextMessage(l) ==
  [l EXCEPT !.idx = @ + 1, !.parsed = NoJson, !.err = NoErr,
            !.attached_files = <<>>, !.attached_links = <<>>, !.cur = 1,
            !.attach_results = <<>>]

\* mid = e["id"] of the message the loop of process p is at.
Mid(p) == loc[p].emails[loc[p].idx]
Msg(p) == Message(Mid(p))

\* An observed call or sleep: its kind, the message id, and (for a classifier
\* call) what the call returned.
Ev(kind, mid) == [kind |-> kind, mid |-> mid, err |-> NoErr, parsed |-> NoJson]
Emit(p, evs) == obs' = [obs EXCEPT ![p] = @ \o evs]

\* maxResults=max_results: the first n entries of the listing.
Take(s, n) == SubSeq(s, 1, IF Len(s) < n THEN Len(s) ELSE n)

\* ------------------------------------------------------------ pure steps
\* A dedup test that finds nothing (mutant of AlreadyProcessed).
AlreadyProcessedNever(ids, mid) == FALSE

\* line 264: mid in st.session_state["processed_ids"]
AlreadyProcessed(ids, mid) == mid \in ids

\* The id is not recorded (mutant of MarkProcessed).
MarkProcessedForgets(ids, mid) == ids

\* line 269: st.session_state["processed_ids"].add(mid)
MarkProcessed(ids, mid) == ids \cup {mid}

\* line 297: `if err:` -- an error text that is not None and not empty
HasErr(err) == ~err.none /\ Len(err.text) > 0

\* The test without .lower() (mutant of IsRateLimited).
IsRateLimitedCaseSensitive(text) == Contains(text, <<"r","a","t","e">>)

\* line 301: "rate" in err.lower()
IsRateLimited(text) == Contains(Lower(text), <<"r","a","t","e">>)

\* Python truthiness of the parsed JSON value (`not parsed`, line 312)
Truthy(json) ==
  \/ json.kind = "list"
  \/ json.kind = "dict" /\ json.keys # {}

\* parsed.get("is_project") on a dict: the value, or None when the key is absent
GetIsProject(json) == "is_project" \in json.keys /\ json.is_project

\* Only `not parsed` is tested (mutant of NotAProject).
NotAProjectOnlyFalsy(json) == ~Truthy(json)

\* line 312 on a value that has .get: not parsed or not parsed.get("is_project")
NotAProject(json) == ~Truthy(json) \/ ~GetIsProject(json)

\* line 312 raises AttributeError: a truthy value without .get
GetRaises(json) == Truthy(json) /\ json.kind # "dict"

\* line 354: the extension or dropbox test that decides whether u is fetched
Extensions ==
  { <<".","p","d","f">>, <<".","p","n","g">>, <<".","j","p","g">>,
    <<".","j","p","e","g">>, <<".","z","i","p">>, <<".","d","o","c">>,
    <<".","d","o","c","x">>, <<".","x","l","s">>, <<".","x","l","s","x">> }
LooksLikeFile(u) ==
  \/ \E ext \in Extensions : Contains(Lower(u), ext)
  \/ Contains(Lower(u), <<"d","r","o","p","b","o","x",".","c","o","m">>)

\* line 352: url_candidates + file_links
Candidates(m, json) == m.body_urls \o json.file_links

\* A staged file: the path a download returned, named by what was downloaded.
Staged(kind, name) == [src |-> kind, name |-> name]

\* Which loop of the message body runs next: the payload parts (331-346), the
\* URL candidates (352-364), or neither (on to the card, 366-381).
StageAfterClassify(m, json) ==
  IF Len(m.parts) > 0 THEN "attachments"
  ELSE IF Len(Candidates(m, json)) > 0 THEN "links"
  ELSE "create"
StageAfterParts(m, json) ==
  IF Len(Candidates(m, json)) > 0 THEN "links" ELSE "create"

\* The links are attached whenever there are any (mutant of StageAfterCard).
StageAfterCardLinksFirst(files, links) ==
  IF Len(links) > 0 THEN "attach_links"
  ELSE IF Len(files) > 0 THEN "attach_files"
  ELSE "inserted"

\* lines 391-411: files if any were staged, else the links, else nothing
StageAfterCard(files, links) ==
  IF Len(files) > 0 THEN "attach_files"
  ELSE IF Len(links) > 0 THEN "attach_links"
  ELSE "inserted"

\* ------------------------------------------------------------ Init
Init ==
  /\ inbox = <<>>
  /\ processed_ids = {}
  /\ board = [m \in AllIds |-> <<>>]
  /\ llm = [m \in AllIds |-> {}]
  /\ started = [m \in AllIds |-> {}]
  /\ passNo = 0
  /\ pc = [p \in Procs |-> "idle"]
  /\ myPass = [p \in Procs |-> 0]
  /\ summary = [p \in Procs |-> ZeroSummary]
  /\ loc = [p \in Procs |-> NoLocals]
  /\ obs = [p \in Procs |-> <<>>]
  /\ auto_running = FALSE
  /\ auto_stop_flag = 0
  /\ events = <<>>
  /\ wpc = [t \in Workers |-> "unborn"]
  /\ wevent = [t \in Workers |-> 0]
  /\ wk = [t \in Workers |-> 0]
  /\ stopped_at = [t \in Workers |->
                     [where |-> "none", k |-> 0, pass |-> 0, at |-> "idle"]]
  /\ subject = <<>>
  /\ cleaned = <<>>
  /\ logs = <<>>
  /\ logged = 0

\* ------------------------------------------------------------ the mailbox
\* A new message arrives in the inbox (newest first). The program reads the
\* inbox only in the fetch, so an arrival is taken just before a fetch.
MailArrives(mid) ==
  /\ \E p \in Procs : pc[p] = "fetch"
  /\ \A i \in DOMAIN inbox : inbox[i] # mid
  /\ inbox' = <<mid>> \o inbox
  /\ UNCHANGED <<textVars, processed_ids, worldVars, passNo, passVars, autoVars>>

\* ------------------------------------------------------------ process_emails_once
\* lines 245-246: the call, with a fresh summary
BeginPass(p) ==
  /\ passNo < MaxPasses
  /\ passNo' = passNo + 1
  /\ myPass' = [myPass EXCEPT ![p] = passNo + 1]
  /\ pc' = [pc EXCEPT ![p] = "fetch"]
  /\ summary' = [summary EXCEPT ![p] = ZeroSummary]
  /\ loc' = [loc EXCEPT ![p] = NoLocals]
  /\ obs' = [obs EXCEPT ![p] = <<>>]

\* The failure is not counted (mutant of FetchFailureSummary).
FetchFailureUncounted(sum) == sum

\* lines 249-252: the summary returned when the fetch raised
FetchFailureSummary(sum) == [sum EXCEPT !.errors = @ + 1]

\* lines 247-252: fetch_inbox_last_24h raises (no credentials: line 110; or a
\* service / transport error of the list or get calls)
FetchFails(p) ==
  /\ pc[p] = "fetch"
  /\ \E cause \in {"no_credentials", "transport"} :
       Emit(p, <<Ev(cause, 0)>>)
  /\ summary' = [summary EXCEPT ![p] = FetchFailureSummary(@)]
  /\ pc' = [pc EXCEPT ![p] = "done"]
  /\ UNCHANGED <<textVars, inbox, processed_ids, worldVars, passNo, myPass, loc, autoVars>>

\* lines 248, 254-260: the fetch returns the listing; the second
\* build_gmail_service succeeds (service) or raises (service = None)
FetchOk(p) ==
  /\ pc[p] = "fetch"
  /\ \E svc \in BOOLEAN :
       loc' = [loc EXCEPT ![p] =
                 [NoLocals EXCEPT !.emails = Take(inbox, MaxEmails), !.service = svc]]
  /\ summary' = [summary EXCEPT ![p].fetched = Len(Take(inbox, MaxEmails))]
  /\ pc' = [pc EXCEPT ![p] = "check"]
  /\ UNCHANGED <<textVars, inbox, processed_ids, worldVars, passNo, myPass, obs, autoVars>>

\* lines 262, 418: the loop is exhausted; return summary
LoopExit(p) ==
  /\ pc[p] = "check"
  /\ loc[p].idx > Len(loc[p].emails)
  /\ pc' = [pc EXCEPT ![p] = "done"]
  /\ UNCHANGED <<textVars, inbox, processed_ids, worldVars, passNo, myPass, summary, loc, obs,
                 autoVars>>

\* lines 262-267: the dedup test of the next fetched message
CheckProcessed(p) ==
  /\ pc[p] = "check"
  /\ loc[p].idx <= Len(loc[p].emails)
  /\ IF AlreadyProcessed(processed_ids, Mid(p))
     THEN /\ summary' = [summary EXCEPT ![p].skipped = @ + 1]
          /\ loc' = [loc EXCEPT ![p] = NextMessage(@)]
          /\ Emit(p, <<Ev("dedup_skip", Mid(p))>>)
          /\ pc' = pc
     ELSE /\ pc' = [pc EXCEPT ![p] = "add"]
          /\ UNCHANGED <<summary, loc, obs>>
  /\ UNCHANGED <<textVars, inbox, processed_ids, worldVars, passNo, myPass, autoVars>>

\* The message is not counted in parsed (mutant of MarkSeen).
MarkSeenUncounted(p) ==
  /\ pc[p] = "add"
  /\ processed_ids' = MarkProcessed(processed_ids, Mid(p))
  /\ started' = [started EXCEPT ![Mid(p)] = @ \cup {myPass[p]}]
  /\ pc' = [pc EXCEPT ![p] = "classify"]
  /\ UNCHANGED <<textVars, inbox, board, llm, passNo, myPass, summary, loc, obs,
                 autoVars>>

\* lines 269-293: mark the id seen, count it, build the text for the classifier
MarkSeen(p) ==
  /\ pc[p] = "add"
  /\ processed_ids' = MarkProcessed(processed_ids, Mid(p))
  /\ started' = [started EXCEPT ![Mid(p)] = @ \cup {myPass[p]}]
  /\ summary' = [summary EXCEPT ![p].parsed = @ + 1]
  /\ pc' = [pc EXCEPT ![p] = "classify"]
  /\ UNCHANGED <<textVars, inbox, board, llm, passNo, myPass, loc, obs, autoVars>>

\* lines 297-328 after a call of analyze_and_extract returned r; `first` tells
\* the call of line 296 from the retry of line 304; evs are the calls so far
Extracted(p, r, first, evs) ==
  LET mid == Mid(p)
      keep == [loc[p] EXCEPT !.parsed = r.parsed, !.err = r.err]
  IN
  IF HasErr(r.err)
  THEN /\ summary' = [summary EXCEPT ![p].errors = @ + 1]
       /\ Emit(p, evs)
       /\ IF first /\ IsRateLimited(r.err.text)
          THEN /\ pc' = [pc EXCEPT ![p] = "retry"]
               /\ loc' = [loc EXCEPT ![p] = keep]
          ELSE /\ pc' = [pc EXCEPT ![p] = "check"]
               /\ loc' = [loc EXCEPT ![p] = NextMessage(@)]
  ELSE IF GetRaises(r.parsed)
  THEN /\ pc' = [pc EXCEPT ![p] = "raised"]
       /\ loc' = [loc EXCEPT ![p] = keep]
       /\ Emit(p, evs)
       /\ UNCHANGED summary
  ELSE IF NotAProject(r.parsed)
  THEN /\ summary' = [summary EXCEPT ![p].skipped = @ + 1]
       /\ pc' = [pc EXCEPT ![p] = "check"]
       /\ loc' = [loc EXCEPT ![p] = NextMessage(@)]
       /\ Emit(p, evs \o <<Ev("not_project", mid)>>)
  ELSE /\ pc' = [pc EXCEPT ![p] = StageAfterClassify(Message(mid), r.parsed)]
       /\ loc' = [loc EXCEPT ![p] =
                    [keep EXCEPT !.attached_files = <<>>, !.attached_links = <<>>,
                                 !.cur = 1]]
       /\ Emit(p, evs \o <<Ev("makedirs", mid)>>)
       /\ UNCHANGED summary

\* The observed classifier call, with the (parsed, err) it returned.
LlmCall(mid, r) == [kind |-> "classify", mid |-> mid, err |-> r.err, parsed |-> r.parsed]

\* lines 296-328: the first call of the classifier for this message
Classify(p) ==
  /\ pc[p] = "classify"
  /\ \E r \in Responses(Msg(p)) :
       Extracted(p, r, TRUE, <<LlmCall(Mid(p), r)>>)
  /\ llm' = [llm EXCEPT ![Mid(p)] = @ \cup {myPass[p]}]
  /\ UNCHANGED <<textVars, inbox, processed_ids, board, started, passNo, myPass, autoVars>>

\* lines 302-310 (then 312-328): sleep delay_seconds, call the classifier again
Retry(p) ==
  /\ pc[p] = "retry"
  /\ \E r \in Responses(Msg(p)) :
       Extracted(p, r, FALSE, <<Ev("retry_sleep", Mid(p)), LlmCall(Mid(p), r)>>)
  /\ llm' = [llm EXCEPT ![Mid(p)] = @ \cup {myPass[p]}]
  /\ UNCHANGED <<textVars, inbox, processed_ids, board, started, passNo, myPass, autoVars>>

\* One iteration of a `for` over a list of n items is done: the next index, and
\* the position after the loop when that was the last item (the results of
\* the loop's calls are dead then).
Advance(p, l, n, after) ==
  /\ loc' = [loc EXCEPT ![p] = IF l.cur < n THEN [l EXCEPT !.cur = @ + 1]
                                ELSE [l EXCEPT !.cur = 1, !.attach_results = <<>>]]
  /\ pc' = [pc EXCEPT ![p] = IF l.cur < n THEN pc[p] ELSE after]

\* The part is downloaded whether or not there is a service (mutant of
\* WantsAttachment).
WantsAttachmentAnyway(part, service) == Len(part) > 0

\* line 337: filename and body.get("attachmentId") and service
WantsAttachment(part, service) == Len(part) > 0 /\ service

\* lines 331-346: one payload part; download_gmail_attachment returns
\* (True, path) or (False, reason), and never raises
GmailPart(p) ==
  LET l == loc[p]
      m == Msg(p)
      part == m.parts[l.cur]
  IN
  /\ pc[p] = "attachments"
  /\ IF WantsAttachment(part, l.service)
     THEN \E ok \in BOOLEAN :
            /\ Advance(p, IF ok THEN [l EXCEPT !.attached_files =
                                        Append(@, Staged("gmail", part))]
                          ELSE l,
                       Len(m.parts), StageAfterParts(m, l.parsed))
            /\ Emit(p, <<Ev("download_attachment", m.id)>>)
     ELSE /\ Advance(p, l, Len(m.parts), StageAfterParts(m, l.parsed))
          /\ UNCHANGED obs
  /\ UNCHANGED <<textVars, inbox, processed_ids, worldVars, passNo, myPass, summary, autoVars>>

\* lines 352-364: one URL candidate; download_url_to_project returns
\* (True, path) or (False, reason), and never raises
UrlCandidate(p) ==
  LET l == loc[p]
      m == Msg(p)
      cands == Candidates(m, l.parsed)
      u == cands[l.cur]
      asLink == [l EXCEPT !.attached_links = Append(@, u)]
      asFile == [l EXCEPT !.attached_files = Append(@, Staged("url", u))]
  IN
  /\ pc[p] = "links"
  /\ IF LooksLikeFile(u)
     THEN \E ok \in BOOLEAN :
            /\ Advance(p, IF ok THEN asFile ELSE asLink, Len(cands), "create")
            /\ Emit(p, <<Ev("download_url", m.id)>>)
     ELSE /\ Advance(p, asLink, Len(cands), "create")
          /\ UNCHANGED obs
  /\ UNCHANGED <<textVars, inbox, processed_ids, worldVars, passNo, myPass, summary, autoVars>>

\* What requests.post gives create_trello_card: an HTTP status, or (0) a raised
\* transport exception.
CardReplies == {200, 429, 0}

\* Every status below 500 is taken for success (mutant of CardOk).
CardOkBelow500(status) == status < 500

\* line 212: r.status_code in (200, 201)
CardOk(status) == status \in {200, 201}

\* lines 366-388: compose the description, create the card
CreateCard(p) ==
  LET l == loc[p]
      mid == Mid(p)
  IN
  /\ pc[p] = "create"
  /\ \E status \in CardReplies :
       /\ board' = [board EXCEPT ![mid] = IF status \in {200, 201}
                                            THEN Append(@, myPass[p]) ELSE @]
       /\ IF status = 0
          THEN /\ pc' = [pc EXCEPT ![p] = "raised"]
               /\ Emit(p, <<Ev("create_raised", mid)>>)
               /\ UNCHANGED <<summary, loc>>
          ELSE IF CardOk(status)
          THEN /\ pc' = [pc EXCEPT ![p] =
                           StageAfterCard(l.attached_files, l.attached_links)]
               /\ loc' = [loc EXCEPT ![p].cur = 1]
               /\ Emit(p, <<Ev(IF status \in {200, 201} THEN "create_ok"
                               ELSE "create_failed", mid)>>)
               /\ UNCHANGED summary
          ELSE /\ summary' = [summary EXCEPT ![p].errors = @ + 1]
               /\ pc' = [pc EXCEPT ![p] = "check"]
               /\ loc' = [loc EXCEPT ![p] = NextMessage(@)]
               /\ Emit(p, <<Ev("create_failed", mid)>>)
  /\ UNCHANGED <<textVars, inbox, processed_ids, llm, started, passNo, myPass, autoVars>>

\* What an attach call gives: an HTTP status, or (0) a raised exception, which
\* the try of lines 393 / 404 catches.
AttachReplies == {200, 500, 0}

\* The first attach call that fails or raises ends the loop (mutant of
\* AttachFile).
AttachFileStopsAtFailure(p) ==
  /\ pc[p] = "attach_files"
  /\ Emit(p, <<Ev("attach_file", Mid(p))>>)
  /\ \E status \in AttachReplies :
       Advance(p, [loc[p] EXCEPT !.attach_results = Append(@, status)],
               IF status = 200 THEN Len(loc[p].attached_files) ELSE loc[p].cur,
               "inserted")
  /\ UNCHANGED <<textVars, inbox, processed_ids, worldVars, passNo, myPass, summary,
                 autoVars>>

\* lines 391-400: attach one staged file
AttachFile(p) ==
  /\ pc[p] = "attach_files"
  /\ Emit(p, <<Ev("attach_file", Mid(p))>>)
  /\ \E status \in AttachReplies :
       Advance(p, [loc[p] EXCEPT !.attach_results = Append(@, status)],
               Len(loc[p].attached_files), "inserted")
  /\ UNCHANGED <<textVars, inbox, processed_ids, worldVars, passNo, myPass, summary, autoVars>>

\* lines 401-411: attach one unresolved link
AttachUrl(p) ==
  /\ pc[p] = "attach_links"
  /\ Emit(p, <<Ev("attach_url", Mid(p))>>)
  /\ \E status \in AttachReplies :
       Advance(p, [loc[p] EXCEPT !.attach_results = Append(@, status)],
               Len(loc[p].attached_links), "inserted")
  /\ UNCHANGED <<textVars, inbox, processed_ids, worldVars, passNo, myPass, summary, autoVars>>

\* The card is counted but the pass does not sleep (mutant of Inserted).
InsertedNoSleep(p) ==
  /\ pc[p] = "inserted"
  /\ summary' = [summary EXCEPT ![p].inserted = @ + 1]
  /\ loc' = [loc EXCEPT ![p] = NextMessage(@)]
  /\ pc' = [pc EXCEPT ![p] = "check"]
  /\ UNCHANGED <<textVars, inbox, processed_ids, worldVars, passNo, myPass, obs, autoVars>>

\* lines 413-416: count the card, sleep delay_seconds, next message
Inserted(p) ==
  /\ pc[p] = "inserted"
  /\ summary' = [summary EXCEPT ![p].inserted = @ + 1]
  /\ Emit(p, <<Ev("delay_sleep", Mid(p))>>)
  /\ loc' = [loc EXCEPT ![p] = NextMessage(@)]
  /\ pc' = [pc EXCEPT ![p] = "check"]
  /\ UNCHANGED <<textVars, inbox, processed_ids, worldVars, passNo, myPass, autoVars>>

\* One step of process_emails_once by process p.
PassStep(p) ==
  \/ FetchFails(p)
  \/ FetchOk(p)
  \/ LoopExit(p)
  \/ CheckProcessed(p)
  \/ MarkSeen(p)
  \/ Classify(p)
  \/ Retry(p)
  \/ GmailPart(p)
  \/ UrlCandidate(p)
  \/ CreateCard(p)
  \/ AttachFile(p)
  \/ AttachUrl(p)
  \/ Inserted(p)

\* ------------------------------------------------------------ the script
\* lines 473-475: "Execute Run Now" calls process_emails_once synchronously
RunNow ==
  /\ pc[FG] = "idle"
  /\ BeginPass(FG)
  /\ UNCHANGED <<textVars, inbox, processed_ids, worldVars, autoVars>>

\* The call of process_emails_once by p is over: its frame is gone.
EndPass(p) ==
  /\ pc' = [pc EXCEPT ![p] = "idle"]
  /\ summary' = [summary EXCEPT ![p] = ZeroSummary]
  /\ loc' = [loc EXCEPT ![p] = NoLocals]
  /\ obs' = [obs EXCEPT ![p] = <<>>]
  /\ UNCHANGED myPass

\* line 476, or the exception that ends the script run
RunEnds ==
  /\ pc[FG] \in {"done", "raised"}
  /\ EndPass(FG)
  /\ UNCHANGED <<textVars, inbox, processed_ids, worldVars, passNo, autoVars>>

\* lines 458-465: a rerun with the checkbox ticked and no worker running makes
\* a new Event, binds the global stop_event of this run's namespace to it, and
\* starts a new auto_worker thread, which reads that global.
ToggleOn ==
  LET t == Len(events) + 1 IN
  /\ pc[FG] = "idle"
  /\ ~auto_running
  /\ t <= MaxThreads
  /\ auto_running' = TRUE
  /\ events' = Append(events, FALSE)
  /\ auto_stop_flag' = t
  /\ wevent' = [wevent EXCEPT ![t] = t]
  /\ wpc' = [wpc EXCEPT ![t] = "top"]
  /\ UNCHANGED <<textVars, inbox, processed_ids, worldVars, passNo, passVars, wk, stopped_at>>

\* lines 466-470: a rerun with the checkbox cleared sets the current Event
ToggleOff ==
  /\ pc[FG] = "idle"
  /\ auto_running
  /\ events' = [events EXCEPT ![auto_stop_flag] = TRUE]
  /\ auto_running' = FALSE
  /\ stopped_at' = [t \in Workers |->
                      IF wevent[t] = auto_stop_flag
                      THEN [where |-> wpc[t], k |-> wk[t], pass |-> myPass[t],
                            at |-> pc[t]]
                      ELSE stopped_at[t]]
  /\ UNCHANGED <<textVars, inbox, processed_ids, worldVars, passNo, passVars, auto_stop_flag,
                 wpc, wevent, wk>>

\* ------------------------------------------------------------ auto_worker
\* The event is never seen set (mutant of StopEventSet).
StopEventIgnored(t) == FALSE

\* lines 431, 439: stop_event and stop_event.is_set()
StopEventSet(t) == wevent[t] # 0 /\ events[wevent[t]]

\* The sleep loop never looks at the event (mutant of BreakSleep).
BreakSleepNever(t) == FALSE

\* lines 439-440: the test that leaves the inter-cycle sleep early
BreakSleep(t) == StopEventSet(t)

\* lines 430-435: the top of `while True`: stop, or start a pass
WorkerCycle(t) ==
  /\ wpc[t] = "top"
  /\ IF StopEventSet(t)
     THEN /\ wpc' = [wpc EXCEPT ![t] = "exited"]
          /\ UNCHANGED <<passNo, passVars>>
     ELSE /\ BeginPass(t)
          /\ wpc' = [wpc EXCEPT ![t] = "pass"]
  /\ UNCHANGED <<textVars, inbox, processed_ids, worldVars, auto_running, auto_stop_flag, events,
                 wevent, wk, stopped_at>>

\* lines 435-438: process_emails_once returned; enter the sleep loop
WorkerPassReturns(t) ==
  /\ wpc[t] = "pass"
  /\ pc[t] = "done"
  /\ EndPass(t)
  /\ wpc' = [wpc EXCEPT ![t] = "sleep_check"]
  /\ wk' = [wk EXCEPT ![t] = 0]
  /\ UNCHANGED <<textVars, inbox, processed_ids, worldVars, passNo,
                 auto_running, auto_stop_flag, events, wevent, stopped_at>>

\* line 435: process_emails_once raised; nothing in auto_worker catches it
WorkerPassRaises(t) ==
  /\ wpc[t] = "pass"
  /\ pc[t] = "raised"
  /\ EndPass(t)
  /\ wpc' = [wpc EXCEPT ![t] = "died"]
  /\ UNCHANGED <<textVars, inbox, processed_ids, worldVars, passNo,
                 auto_running, auto_stop_flag, events, wevent, wk, stopped_at>>

\* lines 438-440: one test of the sleep loop: the range is exhausted, or the
\* stop event is set (break), or another one-second sleep starts
WorkerSleepCheck(t) ==
  /\ wpc[t] = "sleep_check"
  /\ wpc' = [wpc EXCEPT ![t] =
               IF wk[t] >= SleepSteps THEN "top"
               ELSE IF BreakSleep(t) THEN "top"
               ELSE "sleeping"]
  /\ UNCHANGED <<textVars, inbox, processed_ids, worldVars, passNo, passVars, auto_running,
                 auto_stop_flag, events, wevent, wk, stopped_at>>

\* line 441: time.sleep(1) returns
WorkerSleeps(t) ==
  /\ wpc[t] = "sleeping"
  /\ wk' = [wk EXCEPT ![t] = @ + 1]
  /\ wpc' = [wpc EXCEPT ![t] = "sleep_check"]
  /\ UNCHANGED <<textVars, inbox, processed_ids, worldVars, passNo, passVars, auto_running,
                 auto_stop_flag, events, wevent, stopped_at>>

WorkerStep(t) ==
  \/ WorkerCycle(t)
  \/ WorkerPassReturns(t)
  \/ WorkerPassRaises(t)
  \/ WorkerSleepCheck(t)
  \/ WorkerSleeps(t)

\* ------------------------------------------------------------ clean_subject
\* What \s matches and str.strip() removes.
Whitespace == {" ", "\t", "\n"}

\* s without its leading whitespace: the \s* of the pattern, and the left
\* half of str.strip()
RECURSIVE LStrip(_)
LStrip(s) ==
  IF Len(s) > 0 /\ s[1] \in Whitespace THEN LStrip(Tail(s)) ELSE s

\* s without its trailing whitespace: the right half of str.strip()
RECURSIVE RStrip(_)
RStrip(s) ==
  IF Len(s) > 0 /\ s[Len(s)] \in Whitespace
  THEN RStrip(SubSeq(s, 1, Len(s) - 1))
  ELSE s

\* The alternatives of the pattern of line 174: fwd: | fw: | re:
Prefixes == { <<"f","w","d",":">>, <<"f","w",":">>, <<"r","e",":">> }

\* The pattern's alternative pre matches at the start of s (re.IGNORECASE).
PrefixAt(s, pre) ==
  /\ Len(s) >= Len(pre)
  /\ Lower(SubSeq(s, 1, Len(pre))) = pre

\* re.sub(r"^(fwd:|fw:|re:)\s*", "", subject, flags=re.IGNORECASE): ^ matches
\* only at the start of the string, so at most one match is replaced.
SubPrefix(s) ==
  IF \E pre \in Prefixes : PrefixAt(s, pre)
  THEN LET pre == CHOOSE q \in Prefixes : PrefixAt(s, q)
       IN LStrip(SubSeq(s, Len(pre) + 1, Len(s)))
  ELSE s

\* lines 173-174
clean_subject(s) == RStrip(LStrip(SubPrefix(s)))

\* The pieces subjects are made of, and the subjects: up to MaxSubjectTokens
\* pieces in a row, and the two subjects the specification names.
Tokens == { <<"R","e",":">>, <<"F","W",":">>, <<"f","w","d",":">>, <<" ">>, <<"a">> }

RECURSIVE Flatten(_)
Flatten(ss) == IF ss = <<>> THEN <<>> ELSE Head(ss) \o Flatten(Tail(ss))

S_logo == <<"R","e",":"," ","L","o","g","o"," ","D","e","s","i","g","n">>
S_invoice == <<"F","w","d",":"," ","F","W",":"," ","I","n","v","o","i","c","e">>

Subjects ==
  {S_logo, S_invoice} \cup
  UNION { {Flatten(ss) : ss \in [1..n -> Tokens]} : n \in 0..MaxSubjectTokens }

\* lines 318, 380: a call of clean_subject
CleanSubject ==
  /\ \E s \in Subjects :
       /\ subject' = s
       /\ cleaned' = clean_subject(s)
  /\ UNCHANGED <<inbox, processed_ids, worldVars, passNo, passVars, autoVars,
                 logs, logged>>

\* ------------------------------------------------------------ log
\* The slice keeps one entry more (mutant of LastN).
LastNPlusOne(s, n) == IF Len(s) <= n + 1 THEN s ELSE SubSeq(s, Len(s) - n, Len(s))

\* s[-n:]
LastN(s, n) == IF Len(s) <= n THEN s ELSE SubSeq(s, Len(s) - n + 1, Len(s))

\* lines 237-240: append the entry, keep the last LogCap entries
Log ==
  /\ logged < MaxLogCalls
  /\ logged' = logged + 1
  /\ logs' = LastN(Append(logs, logged + 1), LogCap)
  /\ UNCHANGED <<inbox, processed_ids, worldVars, passNo, passVars, autoVars,
                 subject, cleaned>>

\* ------------------------------------------------------------ specifications
\* Calls of clean_subject, on any of the subjects.
NextSubject == CleanSubject

SpecSubject == Init /\ [][NextSubject]_vars

\* Calls of log, one after another.
NextLog == Log

SpecLog == Init /\ [][NextLog]_vars

\* Sequential passes of the script thread ("Execute Run Now"), with mail
\* arriving between them.
Next ==
  \/ \E mid \in MsgIds : MailArrives(mid)
  \/ RunNow
  \/ RunEnds
  \/ PassStep(FG)

Spec == Init /\ [][Next]_vars

\* Sequential passes over a mailbox that receives message 4.
NextUrls ==
  \/ MailArrives(4)
  \/ RunNow
  \/ RunEnds
  \/ PassStep(FG)

SpecUrls == Init /\ [][NextUrls]_vars

\* A foreground pass and an auto_worker thread over the same session state:
\* Auto Mode is enabled and "Execute Run Now" is pressed, with one message
\* (id 2: an attachment and a file link) arriving in the inbox.
NextConc ==
  \/ MailArrives(2)
  \/ ToggleOn
  \/ RunNow
  \/ RunEnds
  \/ \E p \in Procs : PassStep(p)
  \/ \E t \in Workers : WorkerStep(t)

SpecConc == Init /\ [][NextConc]_vars

\* Auto Mode switched on and off, following the first auto_worker thread from
\* its start to its exit, with one message (id 2: an attachment and a file
\* link) arriving in the inbox. A later ToggleOn starts another thread, whose
\* steps this specification does not follow.
NextAuto ==
  \/ MailArrives(2)
  \/ ToggleOn
  \/ ToggleOff
  \/ PassStep(1)
  \/ WorkerStep(1)

SpecAuto == Init /\ [][NextAuto]_vars

\* The same, with the worker thread scheduled for as long as it has a step to
\* take: every external call and every sleep of the thread returns.
FairAuto == SpecAuto /\ WF_vars(PassStep(1) \/ WorkerStep(1))

\* ------------------------------------------------------------ reading a pass
\* The events of kinds `kinds` for message mid in a trace.
Kinds(tr, kinds, mid) == {i \in DOMAIN tr : tr[i].kind \in kinds /\ tr[i].mid = mid}

\* The events a step appends to the trace of p.
NewEvents(p) ==
  IF Len(obs'[p]) >= Len(obs[p])
  THEN SubSeq(obs'[p], Len(obs[p]) + 1, Len(obs'[p]))
  ELSE <<>>

\* Process p takes a step of its pass.
Stepped(p) == pc'[p] # pc[p] \/ loc'[p] # loc[p] \/ obs'[p] # obs[p]

\* Process p is inside the loop body for message mid.
Working(p, mid) ==
  /\ pc[p] \in {"add", "classify", "retry", "attachments", "links", "create",
                "attach_files", "attach_links", "inserted", "raised"}
  /\ loc[p].idx <= Len(loc[p].emails)
  /\ Mid(p) = mid

ClassifierKinds == {"classify"}
BoardKinds == {"create_ok", "create_failed", "create_raised", "attach_file", "attach_url"}
StagingKinds == {"makedirs", "download_attachment", "download_url"}

MinOf(S) == CHOOSE x \in S : \A y \in S : x <= y
MaxOf(S) == CHOOSE x \in S : \A y \in S : x >= y

\* ------------------------------------------------------------ claims
\* C1: a fetched message whose id is in the processed-id set when the loop
\* reaches it gets no classifier call and no board call in this pass; the step
\* adds exactly one to summary.skipped and moves to the next message.
C1_Reached(p) ==
  /\ pc[p] = "check"
  /\ loc[p].idx <= Len(loc[p].emails)
  /\ Mid(p) \in processed_ids
C1_DedupSkip ==
  /\ [](\A p \in Procs : \A i \in DOMAIN obs[p] :
          obs[p][i].kind = "dedup_skip" =>
            Kinds(obs[p], ClassifierKinds \cup BoardKinds, obs[p][i].mid) = {})
  /\ [][\A p \in Procs :
          C1_Reached(p) /\ Stepped(p) =>
            /\ summary'[p] = [summary[p] EXCEPT !.skipped = @ + 1]
            /\ NewEvents(p) = <<Ev("dedup_skip", Mid(p))>>
            /\ llm' = llm /\ board' = board
            /\ pc'[p] = "check"
            /\ loc'[p].idx = loc[p].idx + 1]_vars
\* A second pass has skipped a message that an earlier pass classified.
C1_Witness ==
  /\ pc[FG] = "done"
  /\ myPass[FG] = 2
  /\ \E i \in DOMAIN obs[FG] :
       /\ obs[FG][i].kind = "dedup_skip"
       /\ llm[obs[FG][i].mid] = {1}
  /\ summary[FG].skipped >= 1

\* C2: an id is in the processed-id set before the classifier is called for it,
\* the set never shrinks, and over sequential passes a message whose processing
\* was started in one pass is not classified and gets no card in a later pass.
C2_StartedOnce ==
  /\ [](\A mid \in MsgIds : \A s \in started[mid] :
          /\ \A n \in llm[mid] : n <= s
          /\ \A i \in DOMAIN board[mid] : board[mid][i] <= s)
  /\ [][/\ processed_ids \subseteq processed_ids'
        /\ \A p \in Procs : \A i \in DOMAIN NewEvents(p) :
             NewEvents(p)[i].kind = "classify" =>
               NewEvents(p)[i].mid \in processed_ids]_vars
\* A message whose only attempt failed in pass 1 has been skipped by pass 2.
C2_Witness ==
  /\ pc[FG] = "done"
  /\ myPass[FG] = 2
  /\ \E mid \in MsgIds :
       /\ started[mid] = {1}
       /\ llm[mid] = {1}
       /\ board[mid] = <<>>
       /\ Kinds(obs[FG], {"dedup_skip"}, mid) # {}

\* C3: a message for which the classifier returns a record with is_project
\* false or absent or empty gets no staging folder, no download, no card and
\* no attachment; the step counts it as skipped and moves to the next message.
C3_NonProjectRecord(e) ==
  /\ e.kind = "classify"
  /\ e.err.none
  /\ e.parsed.kind = "dict"
  /\ ~("is_project" \in e.parsed.keys /\ e.parsed.is_project)
C3_NotProjectNoAction ==
  /\ [](\A p \in Procs : \A i \in DOMAIN obs[p] :
          C3_NonProjectRecord(obs[p][i]) =>
            Kinds(obs[p], StagingKinds \cup BoardKinds, obs[p][i].mid) = {})
  /\ [][\A p \in Procs : \A i \in DOMAIN NewEvents(p) :
          C3_NonProjectRecord(NewEvents(p)[i]) =>
            /\ summary'[p] = [summary[p] EXCEPT !.skipped = @ + 1]
            /\ pc'[p] = "check"
            /\ loc'[p].idx = loc[p].idx + 1]_vars
\* A pass went on to a card for the message after a not-a-project message.
C3_Witness ==
  \E i, j \in DOMAIN obs[FG] :
    /\ i < j
    /\ C3_NonProjectRecord(obs[FG][i])
    /\ "is_project" \in obs[FG][i].parsed.keys
    /\ obs[FG][j].kind = "create_ok"
    /\ obs[FG][j].mid # obs[FG][i].mid

\* C4: per message and per pass the classifier is called once, and a second
\* time exactly when the first call failed with an error text that contains
\* "rate" in any case, after one sleep of delay_seconds; never a third time. A
\* second failure abandons the message for this pass (no card, id still in the
\* processed-id set, loop at the next message); a second success is handled as
\* a first success is.
C4_RateShaped(e) ==
  /\ ~e.err.none
  /\ \E i \in 1..(Len(e.err.text) - 3) :
       /\ LowerChar(e.err.text[i]) = "r"
       /\ LowerChar(e.err.text[i + 1]) = "a"
       /\ LowerChar(e.err.text[i + 2]) = "t"
       /\ LowerChar(e.err.text[i + 3]) = "e"
C4_IsProject(e) ==
  /\ e.err.none
  /\ e.parsed.kind = "dict"
  /\ "is_project" \in e.parsed.keys
  /\ e.parsed.is_project
C4_RetryLaw ==
  \A p \in Procs : \A mid \in MsgIds :
    LET tr == obs[p]
        calls == Kinds(tr, ClassifierKinds, mid)
        sleeps == Kinds(tr, {"retry_sleep"}, mid)
        n == Cardinality(calls)
        first == tr[MinOf(calls)]
        second == tr[MaxOf(calls)]
    IN
    /\ n <= 2
    /\ Cardinality(sleeps) = (IF n = 2 THEN 1 ELSE 0)
    /\ n = 2 => /\ C4_RateShaped(first)
                /\ \A s \in sleeps : MinOf(calls) < s /\ s < MaxOf(calls)
    /\ n = 1 /\ C4_RateShaped(first) => pc[p] = "retry" /\ Working(p, mid)
    /\ n = 2 /\ ~second.err.none =>
         /\ Kinds(tr, BoardKinds, mid) = {}
         /\ mid \in processed_ids
         /\ ~Working(p, mid)
    /\ \A i \in calls :
         C4_IsProject(tr[i]) =>
           /\ i < Len(tr)
           /\ tr[i + 1] = Ev("makedirs", mid)
\* A retry succeeded and the message got its card.
C4_Witness ==
  \E mid \in MsgIds :
    LET calls == Kinds(obs[FG], ClassifierKinds, mid) IN
    /\ Cardinality(calls) = 2
    /\ C4_IsProject(obs[FG][MaxOf(calls)])
    /\ Kinds(obs[FG], {"create_ok"}, mid) # {}

\* C6: whatever fails for a message, process_emails_once does not raise.
C6_NeverRaises == \A p \in Procs : pc[p] # "raised"

\* C7: when the fetch fails the pass returns errors = 1 and every other counter
\* 0, makes no classifier or board call, and leaves the processed-id set as it
\* was.
C7_FetchFailed(p) ==
  /\ Len(obs[p]) > 0
  /\ obs[p][1].kind \in {"no_credentials", "transport"}
C7_FetchFailureAborts ==
  /\ [](\A p \in Procs :
          C7_FetchFailed(p) =>
            /\ pc[p] = "done"
            /\ summary[p] = [fetched |-> 0, parsed |-> 0, inserted |-> 0,
                             skipped |-> 0, errors |-> 1]
            /\ Len(obs[p]) = 1
            /\ \A mid \in MsgIds : myPass[p] \notin started[mid] \cup llm[mid])
  /\ [][\A p \in Procs :
          pc[p] = "fetch" /\ pc'[p] = "done" =>
            /\ C7_FetchFailed(p)'
            /\ processed_ids' = processed_ids
            /\ board' = board]_vars
\* The fetch of a second pass failed, with ids already in the set.
C7_Witness ==
  /\ C7_FetchFailed(FG)
  /\ pc[FG] = "done"
  /\ myPass[FG] = 2
  /\ processed_ids # {}

\* C8: when create_trello_card returns a non-success status, no attach call is
\* made for the message, inserted is not incremented, there is no inter-item
\* sleep, errors grows by one, and the loop is at the next message.
C8_CardFailureDropsRest ==
  /\ [](\A p \in Procs : \A i \in DOMAIN obs[p] :
          obs[p][i].kind = "create_failed" =>
            Kinds(obs[p], {"attach_file", "attach_url", "delay_sleep"},
                  obs[p][i].mid) = {})
  /\ [][\A p \in Procs : \A i \in DOMAIN NewEvents(p) :
          NewEvents(p)[i].kind = "create_failed" =>
            /\ summary'[p] = [summary[p] EXCEPT !.errors = @ + 1]
            /\ pc'[p] = "check"
            /\ loc'[p].idx = loc[p].idx + 1]_vars
\* After a failed card creation the pass went on and created the next card.
C8_Witness ==
  \E i, j \in DOMAIN obs[FG] :
    /\ i < j
    /\ obs[FG][i].kind = "create_failed"
    /\ obs[FG][j].kind = "create_ok"
    /\ pc[FG] = "done"

\* C9: after each inserted card the pass sleeps delay_seconds exactly once
\* before the next message, so two successful card creations of one pass always
\* have a delay_seconds sleep between them.
C9_DelayAfterInsert ==
  \A p \in Procs :
    LET tr == obs[p] IN
    /\ \A i \in DOMAIN tr :
         tr[i].kind = "create_ok" =>
           \A j \in (i + 1)..Len(tr) :
             tr[j].kind = "create_ok" =>
               \E k \in (i + 1)..(j - 1) : tr[k] = Ev("delay_sleep", tr[i].mid)
    /\ \A i \in DOMAIN tr :
         tr[i].kind = "create_ok" =>
           LET sleeps == Kinds(tr, {"delay_sleep"}, tr[i].mid) IN
           IF Working(p, tr[i].mid)
           THEN sleeps = {}
           ELSE Cardinality(sleeps) = 1 /\ \A s \in sleeps : s > i
    /\ Cardinality({i \in DOMAIN tr : tr[i].kind = "delay_sleep"}) = summary[p].inserted
\* Two cards were created in one pass.
C9_Witness ==
  \E i, j \in DOMAIN obs[FG] :
    /\ i < j
    /\ obs[FG][i].kind = "create_ok"
    /\ obs[FG][j].kind = "create_ok"

\* C5: when a foreground pass and an auto-worker pass share the processed-id
\* set and fetch the same id, at most one of them classifies it and at most
\* one card is created for it.
C5_AtMostOnceConcurrent ==
  \A mid \in MsgIds :
    /\ Cardinality(llm[mid]) <= 1
    /\ Len(board[mid]) <= 1

\* C10: when the stop flag is set while the worker is in its inter-cycle sleep,
\* the worker finishes at most the one-second sleep in progress, starts no
\* further pass, and goes on to exit: sleep step, loop test, top of the while,
\* exit, with a step always open to it until it has exited.
C10_StoppedInSleep(t) == stopped_at[t].where \in {"sleep_check", "sleeping"}
C10_StopDuringSleep ==
  /\ [](\A t \in Workers :
          C10_StoppedInSleep(t) =>
            /\ wpc[t] \in {"sleeping", "sleep_check", "top", "exited"}
            /\ pc[t] = "idle"
            /\ myPass[t] = stopped_at[t].pass
            /\ wk[t] <= stopped_at[t].k +
                          (IF stopped_at[t].where = "sleeping" THEN 1 ELSE 0)
            /\ wpc[t] # "exited" => ENABLED WorkerStep(t))
  /\ [][\A t \in Workers :
          C10_StoppedInSleep(t) /\ wpc'[t] # wpc[t] =>
            \/ wpc[t] = "sleeping" /\ wpc'[t] = "sleep_check"
            \/ wpc[t] = "sleep_check" /\ wpc'[t] = "top"
            \/ wpc[t] = "top" /\ wpc'[t] = "exited"]_vars
\* A worker stopped in the middle of a one-second sleep has exited after that
\* one sleep, with most of the interval left.
C10_Witness ==
  \E t \in Workers :
    /\ stopped_at[t].where = "sleeping"
    /\ wpc[t] = "exited"
    /\ wk[t] = stopped_at[t].k + 1
    /\ wk[t] < SleepSteps - 1

\* C11: when the stop flag is set while the worker is inside a pass, the pass
\* goes on as it would have (a step of it is always open, and the worker
\* leaves the call only when the pass has returned or raised), no further pass
\* is started, the worker goes through no one-second sleep, and, the thread
\* being scheduled, it ends (exits, or dies of the exception of its pass).
C11_StoppedInPass(t) == stopped_at[t].where = "pass"
C11_NoMidMessageCancel ==
  /\ [](\A t \in Workers :
          C11_StoppedInPass(t) =>
            /\ myPass[t] = stopped_at[t].pass
            /\ wpc[t] \in {"pass", "sleep_check", "top", "exited", "died"}
            /\ wpc[t] = "pass" <=> pc[t] # "idle"
            /\ wpc[t] = "pass" /\ pc[t] \notin {"done", "raised"} =>
                 ENABLED PassStep(t)
            /\ wpc[t] \notin {"exited", "died"} =>
                 ENABLED (PassStep(t) \/ WorkerStep(t)))
  /\ [][\A t \in Workers :
          C11_StoppedInPass(t) /\ wpc'[t] # wpc[t] =>
            \/ wpc[t] = "pass" /\ pc[t] = "done" /\ wpc'[t] = "sleep_check"
            \/ wpc[t] = "pass" /\ pc[t] = "raised" /\ wpc'[t] = "died"
            \/ wpc[t] = "sleep_check" /\ wpc'[t] = "top"
            \/ wpc[t] = "top" /\ wpc'[t] = "exited"]_vars
  /\ \A t \in Workers :
       C11_StoppedInPass(t) ~> wpc[t] \in {"exited", "died"}
\* A worker stopped while its message was being classified went on to create
\* the card for it, and then exited.
C11_Witness ==
  /\ C11_StoppedInPass(1)
  /\ stopped_at[1].at = "classify"
  /\ board[2] = <<stopped_at[1].pass>>
  /\ wpc[1] = "exited"

\* An auto_worker thread that has been started and has not ended.
Live(t) == wpc[t] \in {"top", "pass", "sleep_check", "sleeping"}

\* C12: for any sequence of enabling and disabling Auto Mode, at most one
\* auto_worker thread that has not yet exited exists at any time.
C12_AtMostOneWorker == Cardinality({t \in Workers : Live(t)}) <= 1

\* s ends with suf.
EndsWith(s, suf) ==
  /\ Len(s) >= Len(suf)
  /\ SubSeq(s, Len(s) - Len(suf) + 1, Len(s)) = suf

\* The part of s before the first occurrence of character c (s when none).
UpTo(s, c) ==
  IF \E i \in DOMAIN s : s[i] = c
  THEN SubSeq(s, 1, (CHOOSE i \in DOMAIN s :
                       s[i] = c /\ \A j \in 1..(i - 1) : s[j] # c) - 1)
  ELSE s

\* The host of a URL: what stands between "://" and the next "/" or "?".
HostOf(u) ==
  LET marks == {i \in 1..(Len(u) - 2) : SubSeq(u, i, i + 2) = <<":", "/", "/">>}
      rest == IF marks = {} THEN u ELSE SubSeq(u, MinOf(marks) + 3, Len(u))
  IN UpTo(UpTo(rest, "/"), "?")

\* C13: the URL has an extension of the allow-list (its path, without any
\* query, ends with it), or its host is dropbox.com or a subdomain of it.
C13_Matches(u) ==
  \/ \E ext \in {<<".","p","d","f">>, <<".","p","n","g">>, <<".","j","p","g">>,
                  <<".","j","p","e","g">>, <<".","z","i","p">>, <<".","d","o","c">>,
                  <<".","d","o","c","x">>, <<".","x","l","s">>,
                  <<".","x","l","s","x">>} :
        EndsWith(Lower(UpTo(u, "?")), ext)
  \/ Lower(HostOf(u)) = <<"d","r","o","p","b","o","x",".","c","o","m">>
  \/ EndsWith(Lower(HostOf(u)), <<".","d","r","o","p","b","o","x",".","c","o","m">>)

\* C13: every URL candidate ends in exactly one of the two lists: it is fetched
\* exactly when it matches the extension allow-list or the dropbox.com host, it
\* becomes a staged file only when it was fetched, and is otherwise kept as an
\* unresolved link; a failed download leaves summary and the message's course
\* as they are.
C13_UrlRouting ==
  [][\A p \in Procs :
       pc[p] = "links" /\ Stepped(p) =>
         LET u == Candidates(Msg(p), loc[p].parsed)[loc[p].cur]
             fetched == NewEvents(p) = <<Ev("download_url", Mid(p))>>
         IN
         /\ fetched <=> C13_Matches(u)
         /\ ~fetched => NewEvents(p) = <<>>
         /\ \/ /\ fetched
               /\ loc'[p].attached_files =
                    Append(loc[p].attached_files, Staged("url", u))
               /\ loc'[p].attached_links = loc[p].attached_links
            \/ /\ loc'[p].attached_links = Append(loc[p].attached_links, u)
               /\ loc'[p].attached_files = loc[p].attached_files
         /\ summary'[p] = summary[p]
         /\ pc'[p] \in {"links", "create"}
         /\ loc'[p].idx = loc[p].idx]_vars

\* s starts with a reply or forward prefix, in any case.
C14_StartsWithPrefix(s) ==
  \E pre \in { <<"r","e",":">>, <<"f","w","d",":">>, <<"f","w",":">> } :
    /\ Len(s) >= Len(pre)
    /\ \A i \in 1..Len(pre) : LowerChar(s[i]) = pre[i]

\* C14: clean_subject strips every leading reply or forward prefix and the
\* surrounding whitespace: "Re: Logo Design" gives "Logo Design",
\* "Fwd: FW: Invoice" gives "Invoice", and no result starts with a prefix.
C14_GreedyClean ==
  /\ subject = S_logo => cleaned = <<"L","o","g","o"," ","D","e","s","i","g","n">>
  /\ subject = S_invoice => cleaned = <<"I","n","v","o","i","c","e">>
  /\ ~C14_StartsWithPrefix(cleaned)
  /\ Len(cleaned) > 0 =>
       cleaned[1] \notin {" ", "\t", "\n"} /\ cleaned[Len(cleaned)] \notin {" ", "\t", "\n"}

\* C15: after every call of log the buffer holds at most 500 entries, and they
\* are the most recently appended ones (all of them while there are at most
\* 500), in the order they were appended.
C15_LogHoldsLatest ==
  LET n == IF logged < 500 THEN logged ELSE 500 IN
  /\ Len(logs) <= 500
  /\ logs = [i \in 1..n |-> logged - n + i]
\* More than 500 entries have been appended, and the oldest are gone.
C15_Witness ==
  /\ logged > 500
  /\ Len(logs) = 500
  /\ logs[1] = logged - 499
  /\ logs[500] = logged

\* The calls of create_trello_card for message mid in a trace.
CreateCalls(tr, mid) == Kinds(tr, {"create_ok", "create_failed", "create_raised"}, mid)

\* C16: a card creation rejected for rate limiting (HTTP 429, the one
\* rejection among CardReplies) is followed by one sleep of delay_seconds and
\* one second call of create_trello_card for the message; the message counts
\* as a board failure (errors, next message) only when that second call failed
\* too.
C16_RateRejected(e) == e.kind = "create_failed" /\ 429 \in CardReplies
C16_BoardRetry ==
  \A p \in Procs : \A mid \in AllIds :
    LET tr == obs[p]
        calls == CreateCalls(tr, mid)
        n == Cardinality(calls)
    IN
    /\ n <= 2
    /\ n = 1 /\ C16_RateRejected(tr[MinOf(calls)]) => Working(p, mid)
    /\ n = 2 =>
         /\ C16_RateRejected(tr[MinOf(calls)])
         /\ \E k \in (MinOf(calls) + 1)..(MaxOf(calls) - 1) :
              tr[k].kind \in {"retry_sleep", "delay_sleep"}

\* C17: once the card of a message exists, every staged file (or, when there
\* is none, every unresolved link) gets its own attach call whatever the calls
\* before it gave: a call that fails or raises changes neither summary nor the
\* board, the loop goes on to the next item, and after the last item the
\* message is counted in inserted, once.
C17_Items(l) ==
  IF Len(l.attached_files) > 0 THEN l.attached_files ELSE l.attached_links
C17_AttachCalls(p) == Kinds(obs[p], {"attach_file", "attach_url"}, Mid(p))
C17_AttachIndependent ==
  /\ [](\A p \in Procs :
          pc[p] \in {"attach_files", "attach_links", "inserted"} =>
            /\ Kinds(obs[p], {"create_ok"}, Mid(p)) # {}
            /\ \E i \in DOMAIN board[Mid(p)] : board[Mid(p)][i] = myPass[p]
            /\ pc[p] = "inserted" =>
                 Cardinality(C17_AttachCalls(p)) = Len(C17_Items(loc[p]))
            /\ pc[p] # "inserted" =>
                 /\ Cardinality(C17_AttachCalls(p)) = Len(loc[p].attach_results)
                 /\ loc[p].cur = Len(loc[p].attach_results) + 1
                 /\ loc[p].cur <= Len(C17_Items(loc[p])))
  /\ [][\A p \in Procs :
          pc[p] \in {"attach_files", "attach_links"} /\ Stepped(p) =>
            /\ summary'[p] = summary[p]
            /\ board' = board
            /\ Len(NewEvents(p)) = 1
            /\ NewEvents(p)[1].kind \in {"attach_file", "attach_url"}
            /\ IF loc[p].cur < Len(C17_Items(loc[p]))
               THEN pc'[p] = pc[p] /\ loc'[p].cur = loc[p].cur + 1
               ELSE pc'[p] = "inserted"
            /\ loc'[p].idx = loc[p].idx]_vars
  /\ [][\A p \in Procs :
          pc[p] = "inserted" /\ Stepped(p) =>
            /\ summary'[p] = [summary[p] EXCEPT !.inserted = @ + 1]
            /\ board' = board
            /\ pc'[p] = "check"
            /\ loc'[p].idx = loc[p].idx + 1]_vars
\* The first attach call for a card raised, the second was made and failed,
\* and the loop stands at the third file with no error counted.
C17_Witness ==
  /\ pc[FG] = "attach_files"
  /\ loc[FG].attach_results = <<0, 500>>
  /\ loc[FG].cur = 3
  /\ Len(loc[FG].attached_files) = 3
  /\ summary[FG].errors = 0

\* C18: a pass starts with every counter at zero, and a pass whose fetch
\* succeeded and that ran to its return has fetched = parsed + the number of
\* dedup-skipped messages, inserted + skipped <= fetched, and
\* fetched <= inserted + skipped + errors <= 2 * fetched.
C18_SummaryAccounting ==
  /\ [][\A p \in Procs :
          pc[p] # "fetch" /\ pc'[p] = "fetch" =>
            summary'[p] = [fetched |-> 0, parsed |-> 0, inserted |-> 0,
                           skipped |-> 0, errors |-> 0]]_vars
  /\ [](\A p \in Procs :
          LET sm == summary[p]
              dedup == Cardinality({i \in DOMAIN obs[p] :
                                      obs[p][i].kind = "dedup_skip"})
              total == sm.inserted + sm.skipped + sm.errors
          IN
          pc[p] = "done" /\ ~C7_FetchFailed(p) =>
            /\ sm.fetched = Len(loc[p].emails)
            /\ sm.fetched = sm.parsed + dedup
            /\ sm.inserted + sm.skipped <= sm.fetched
            /\ sm.fetched <= total
            /\ total <= 2 * sm.fetched)
\* A second pass returned after skipping a processed message and inserting one
\* whose first classifier call was rate-limited: 2 fetched, 3 counted.
C18_Witness ==
  /\ pc[FG] = "done"
  /\ myPass[FG] = 2
  /\ summary[FG] = [fetched |-> 2, parsed |-> 1, inserted |-> 1, skipped |-> 1,
                     errors |-> 1]
  /\ Cardinality({i \in DOMAIN obs[FG] : obs[FG][i].kind = "dedup_skip"}) = 1

\* How many calls of kind `kind` the trace holds for message mid.
CallsOf(tr, kind, mid) == Cardinality(Kinds(tr, {kind}, mid))

\* C19: for a created card the two kinds of attachment exclude each other:
\* with at least one staged file, attach_file_to_trello_card is called once
\* per staged file (the loop goes through the files one by one) and
\* attach_url_to_trello_card not at all; with no staged file,
\* attach_url_to_trello_card is called once per unresolved link.
C19_FilesOrLinks ==
  /\ [](\A p \in Procs :
          /\ \A mid \in AllIds :
               CallsOf(obs[p], "attach_file", mid) = 0
                 \/ CallsOf(obs[p], "attach_url", mid) = 0
          /\ pc[p] = "attach_files" =>
               /\ Len(loc[p].attached_files) > 0
               /\ CallsOf(obs[p], "attach_file", Mid(p)) = loc[p].cur - 1
          /\ pc[p] = "attach_links" =>
               /\ Len(loc[p].attached_files) = 0
               /\ CallsOf(obs[p], "attach_url", Mid(p)) = loc[p].cur - 1
          /\ pc[p] = "inserted" =>
               LET files == loc[p].attached_files
                   links == loc[p].attached_links
                   asFile == CallsOf(obs[p], "attach_file", Mid(p))
                   asUrl == CallsOf(obs[p], "attach_url", Mid(p))
               IN
               IF Len(files) > 0
               THEN asFile = Len(files) /\ asUrl = 0
               ELSE asFile = 0 /\ asUrl = Len(links))
  /\ [][\A p \in Procs :
          /\ pc[p] = "attach_files" /\ Stepped(p) =>
               NewEvents(p) = <<Ev("attach_file", Mid(p))>>
          /\ pc[p] = "attach_links" /\ Stepped(p) =>
               NewEvents(p) = <<Ev("attach_url", Mid(p))>>]_vars
\* A card with two staged files and two unresolved links got the two files,
\* and neither link.
C19_Witness ==
  /\ pc[FG] = "inserted"
  /\ Len(loc[FG].attached_files) = 2
  /\ Len(loc[FG].attached_links) = 2
  /\ CallsOf(obs[FG], "attach_file", Mid(FG)) = 2
  /\ CallsOf(obs[FG], "attach_url", Mid(FG)) = 0

\* The pass of p fetched its messages and has no mailbox service (line 260).
C20_NoService(p) ==
  /\ pc[p] \notin {"idle", "fetch"}
  /\ ~C7_FetchFailed(p)
  /\ ~loc[p].service

\* C20: when the second build_gmail_service fails after a successful fetch,
\* the pass goes on into its loop with no error counted; it downloads no
\* mailbox attachment, and when it returns, every fetched message was either
\* dedup-skipped or classified, and every message classified as a project had
\* each of its file-like links fetched and its card creation called.
C20_PassWithoutService ==
  /\ [](\A p \in Procs :
          C20_NoService(p) =>
            /\ \A i \in DOMAIN obs[p] : obs[p][i].kind # "download_attachment"
            /\ pc[p] = "done" =>
                 \A k \in DOMAIN loc[p].emails :
                   LET mid == loc[p].emails[k]
                       calls == Kinds(obs[p], ClassifierKinds, mid)
                   IN
                   /\ Kinds(obs[p], {"dedup_skip"}, mid) # {} \/ calls # {}
                   /\ \A c \in calls :
                        C4_IsProject(obs[p][c]) =>
                          /\ CreateCalls(obs[p], mid) # {}
                          /\ Cardinality(Kinds(obs[p], {"download_url"}, mid)) =
                               Cardinality(
                                 {j \in DOMAIN Candidates(Message(mid), obs[p][c].parsed) :
                                    Candidates(Message(mid), obs[p][c].parsed)[j]
                                      \in {U_pdf, U_dbx}}))
  /\ [][\A p \in Procs :
          pc[p] = "fetch" /\ Stepped(p) /\ ~C7_FetchFailed(p)' /\ ~loc'[p].service =>
            /\ pc'[p] = "check"
            /\ summary'[p].errors = 0
            /\ summary'[p].fetched = Len(loc'[p].emails)]_vars
\* A pass without a service returned after creating the card of the message
\* that has a mailbox attachment, with its link fetched.
C20_Witness ==
  /\ C20_NoService(FG)
  /\ pc[FG] = "done"
  /\ Kinds(obs[FG], {"create_ok"}, 2) # {}
  /\ Kinds(obs[FG], {"download_url"}, 2) # {}
  /\ summary[FG].inserted >= 1

====
